---------------------------- MODULE Spec2Model ----------------------------
(***************************************************************************)
(* Model of SentenceReader.py: PDF download with bounded retries, sentence *)
(* segmentation, whole-word keyword matching and the sequential pipeline   *)
(* that turns a URL list into result rows, a sentence set and an error log.*)
(*                                                                         *)
(* Strings are sequences of one-character strings, so that the regular     *)
(* expressions of the program (re.split, re.search) are computed character *)
(* by character.                                                           *)
(***************************************************************************)
EXTENDS Integers, Sequences, FiniteSets, TLC

VARIABLES
    pc,            \* position of the run
    kwFile,        \* keywords.txt: [status, lines]
    namesFile,     \* company_names.txt: [status, lines]
    urlFile,       \* pdf_urls.txt: [status, lines]
    urls,          \* process_filings: urls
    keywords,      \* main: keywords
    company_names, \* main: company_names
    index,         \* process_filings: index of the URL being processed (0-based)
    attempt,       \* read_pdf_content: attempt (0-based loop variable)
    ret,           \* the value returned by read_pdf_content: [none, text]
    text,          \* analyze_text_for_keywords: text
    results,       \* process_filings: results
    all_sentences, \* process_filings: all_extracted_sentences
    files,         \* the files written by this run
    trace,         \* the external calls made so far, in order (urlopen/fitz, sleep, log_error, append)
    sentences,     \* analyze_text_for_keywords: sentences
    occurrences,   \* analyze_text_for_keywords: occurrences
    found          \* analyze_text_for_keywords: found_sentences_for_pdf

vars == << pc, kwFile, namesFile, urlFile, urls, keywords, company_names, index, attempt,
           ret, text, results, all_sentences, files, trace, sentences, occurrences, found >>

-----------------------------------------------------------------------------
(* Program constants *)

MAX_RETRIES == 2
RETRY_DELAY == 5
DOC_PAUSE == 1

-----------------------------------------------------------------------------
(* Bounds of the model *)

MaxTextLen == 5      \* length of the enumerated texts of the segmentation specification
MaxDocLen == 4       \* length of the enumerated texts of the matcher specification
MaxKeywords == 2     \* length of the enumerated keyword lists of the matcher specification
MaxUrls == 1         \* length of the enumerated URL lists of the pipeline specification

-----------------------------------------------------------------------------
(* Characters and the character classes of Python's re module *)

UpperAZ == {"A","B","C","D","E","F","G","H","I","J","K","L","M",
            "N","O","P","Q","R","S","T","U","V","W","X","Y","Z"}
LowerAZ == {"a","b","c","d","e","f","g","h","i","j","k","l","m",
            "n","o","p","q","r","s","t","u","v","w","x","y","z"}
Digits == {"0","1","2","3","4","5","6","7","8","9"}

\* \w
IsWord(c) == c \in UpperAZ \cup LowerAZ \cup Digits \cup {"_"}
\* \s
IsSpace(c) == c \in {" ", "\t", "\n", "\r"}
\* [.!?]
IsTerminal(c) == c \in {".", "!", "?"}

UpperSeq == << "A","B","C","D","E","F","G","H","I","J","K","L","M",
               "N","O","P","Q","R","S","T","U","V","W","X","Y","Z" >>
LowerSeq == << "a","b","c","d","e","f","g","h","i","j","k","l","m",
               "n","o","p","q","r","s","t","u","v","w","x","y","z" >>

\* case folding of re.IGNORECASE
Fold(c) ==
    IF c \in UpperAZ
    THEN LowerSeq[CHOOSE i \in 1..26 : UpperSeq[i] = c]
    ELSE c

\* all sequences over S of length at most n
RECURSIVE SeqsUpTo(_, _)
SeqsUpTo(S, n) ==
    IF n = 0 THEN { << >> }
    ELSE LET shorter == SeqsUpTo(S, n - 1)
         IN  shorter \cup { Append(s, c) : s \in shorter, c \in S }

\* str.strip()
RECURSIVE LStrip(_)
LStrip(s) == IF s # << >> /\ IsSpace(Head(s)) THEN LStrip(Tail(s)) ELSE s
RECURSIVE RStrip(_)
RStrip(s) ==
    IF s # << >> /\ IsSpace(s[Len(s)]) THEN RStrip(SubSeq(s, 1, Len(s) - 1)) ELSE s
Strip(s) == RStrip(LStrip(s))

-----------------------------------------------------------------------------
(* Sentence segmentation: re.split(r'(?<!\w\.\w.)(?<![A-Z][a-z]\.)(?<=[.!?])\s+', text) *)

\* (?<!\w\.\w.) fails at position i (the first character of the match is t[i])
LookbehindDotted(t, i) ==
    /\ i >= 5
    /\ IsWord(t[i - 4])
    /\ t[i - 3] = "."
    /\ IsWord(t[i - 2])
    /\ t[i - 1] # "\n"

\* variant: the lookbehind written as (?<![A-Z]\.)
LookbehindInitial(t, i) ==
    /\ i >= 3
    /\ t[i - 2] \in UpperAZ
    /\ t[i - 1] = "."

\* (?<![A-Z][a-z]\.) fails at position i
LookbehindTitle(t, i) ==
    /\ i >= 4
    /\ t[i - 3] \in UpperAZ
    /\ t[i - 2] \in LowerAZ
    /\ t[i - 1] = "."

\* the pattern matches starting at position i
SplitAt(t, i) ==
    /\ i >= 2
    /\ i <= Len(t)
    /\ ~LookbehindDotted(t, i)
    /\ ~LookbehindTitle(t, i)
    /\ IsTerminal(t[i - 1])
    /\ IsSpace(t[i])

\* \s+ is greedy: the last position of the whitespace run that starts at i
RECURSIVE RunEnd(_, _)
RunEnd(t, i) == IF i < Len(t) /\ IsSpace(t[i + 1]) THEN RunEnd(t, i + 1) ELSE i

\* re.split: scan left to right, cut at each match, resume after it
RECURSIVE ReSplit(_, _, _)
ReSplit(t, segStart, pos) ==
    IF pos > Len(t)
    THEN << SubSeq(t, segStart, Len(t)) >>
    ELSE IF SplitAt(t, pos)
         THEN << SubSeq(t, segStart, pos - 1) >>
              \o ReSplit(t, RunEnd(t, pos) + 1, RunEnd(t, pos) + 1)
         ELSE ReSplit(t, segStart, pos + 1)

Segment(t) == ReSplit(t, 1, 1)

-----------------------------------------------------------------------------
(* Keyword matching: re.search(rf"\b{re.escape(keyword)}\b", sentence, re.IGNORECASE) *)

\* \b at the gap before s[p], p in 1..Len(s)+1
WordBoundary(s, p) ==
    (p > 1 /\ IsWord(s[p - 1])) # (p <= Len(s) /\ IsWord(s[p]))

\* the escaped keyword matches literally, ignoring case, at s[i..i+Len(kw)-1]
LiteralAt(kw, s, i) ==
    \A j \in 1..Len(kw) : Fold(s[i + j - 1]) = Fold(kw[j])

KeywordSearch(kw, s) ==
    \E i \in 1..(Len(s) - Len(kw) + 1) :
        /\ WordBoundary(s, i)
        /\ LiteralAt(kw, s, i)
        /\ WordBoundary(s, i + Len(kw))

\* variant: the count taken over the deduplicated set of sentences
CountDistinctSentences(sents, kw) ==
    Cardinality({ x \in { sents[i] : i \in 1..Len(sents) } : KeywordSearch(kw, x) })

\* the inner loop: count += 1 for every sentence of the sequence that matches
RECURSIVE CountSentences(_, _)
CountSentences(sents, kw) ==
    IF sents = << >> THEN 0
    ELSE (IF KeywordSearch(kw, Head(sents)) THEN 1 ELSE 0)
         + CountSentences(Tail(sents), kw)

\* the inner loop: found_sentences_for_pdf.add(sentence.strip())
MatchedSentences(sents, kw) ==
    { Strip(sents[i]) : i \in { j \in 1..Len(sents) : KeywordSearch(kw, sents[j]) } }

\* variant: occurrences[keyword] = occurrences.get(keyword, 0) + count
StoreCountAdding(occ, kw, count) ==
    IF count > 0
    THEN [ k \in DOMAIN occ \cup {kw} |->
             IF k = kw THEN (IF kw \in DOMAIN occ THEN occ[kw] ELSE 0) + count
                       ELSE occ[k] ]
    ELSE occ

\* if count > 0: occurrences[keyword] = count
StoreCount(occ, kw, count) ==
    IF count > 0
    THEN [ k \in DOMAIN occ \cup {kw} |-> IF k = kw THEN count ELSE occ[k] ]
    ELSE occ

EmptyDict == [ k \in {} |-> 0 ]

\* the outer loop over the keyword list, in order
RECURSIVE KeywordLoop(_, _, _, _)
KeywordLoop(sents, kws, occ, fnd) ==
    IF kws = << >> THEN [ occurrences |-> occ, found |-> fnd ]
    ELSE KeywordLoop(sents, Tail(kws),
                     StoreCount(occ, Head(kws), CountSentences(sents, Head(kws))),
                     fnd \cup MatchedSentences(sents, Head(kws)))

analyze_text_for_keywords(t, kws) ==
    LET sents == Segment(t)
        r == KeywordLoop(sents, kws, EmptyDict, {})
    IN  [ sentences |-> sents, occurrences |-> r.occurrences, found |-> r.found ]

-----------------------------------------------------------------------------
(* Specification of the segmenter alone: every text over SegAlphabet up to *)
(* MaxTextLen characters, and the example texts.                           *)

MrSmith == << "M","r","."," ","S","m","i","t","h"," ","w","e","n","t"," ",
              "h","o","m","e","."," ","H","e"," ","l","e","f","t","." >>
ASmith == << "A","."," ","S","m","i","t","h"," ","l","e","f","t","."," ","O","k","." >>
USText == << "T","h","e"," ","U",".","S","."," ","g","r","e","w","."," ","Y","e","s","!" >>

SegAlphabet == { "A", "a", "1", ".", "!", " " }
SegTexts == SeqsUpTo(SegAlphabet, MaxTextLen) \cup { MrSmith, ASmith, USText }

Idle ==
    /\ kwFile = [ status |-> "ok", lines |-> << >> ]
    /\ namesFile = [ status |-> "missing", lines |-> << >> ]
    /\ urlFile = [ status |-> "ok", lines |-> << >> ]
    /\ ret = [ none |-> TRUE, text |-> << >> ]
    /\ urls = << >>
    /\ company_names = << >>
    /\ index = 0
    /\ attempt = 0
    /\ results = << >>
    /\ all_sentences = {}
    /\ files = {}
    /\ trace = << >>

SegInit ==
    /\ Idle
    /\ pc = "text"
    /\ text \in SegTexts
    /\ keywords = << >>
    /\ sentences = << >>
    /\ occurrences = EmptyDict
    /\ found = {}

SegmentText ==
    /\ pc = "text"
    /\ sentences' = Segment(text)
    /\ pc' = "segmented"
    /\ UNCHANGED << kwFile, namesFile, urlFile, urls, keywords, company_names, index,
                    attempt, ret, text, results, all_sentences, files, trace,
                    occurrences, found >>

SegNext == SegmentText

SegSpec == SegInit /\ [][SegNext]_vars

-----------------------------------------------------------------------------
(* Specification of the matcher alone: every text over DocAlphabet up to   *)
(* MaxDocLen characters and the example texts, against every keyword list  *)
(* of up to MaxKeywords keywords of the pool.                              *)

CatSat == << "T","h","e"," ","c","a","t"," ","s","a","t","." >>
Concat == << "c","o","n","c","a","t","e","n","a","t","e","." >>
Twice == << "a","."," ","a","."," ","A"," ","a","!" >>

DocAlphabet == { "a", "A", ".", " " }
DocTexts == SeqsUpTo(DocAlphabet, MaxDocLen) \cup { CatSat, Concat, Twice }

KeywordPool == { << "a" >>, << "A" >>, << "c", "a", "t" >> }
KeywordLists == SeqsUpTo(KeywordPool, MaxKeywords)

MatchInit ==
    /\ Idle
    /\ pc = "text"
    /\ text \in DocTexts
    /\ keywords \in KeywordLists
    /\ sentences = << >>
    /\ occurrences = EmptyDict
    /\ found = {}

AnalyzeText ==
    /\ pc = "text"
    /\ LET r == analyze_text_for_keywords(text, keywords)
       IN  /\ sentences' = r.sentences
           /\ occurrences' = r.occurrences
           /\ found' = r.found
    /\ pc' = "analyzed"
    /\ UNCHANGED << kwFile, namesFile, urlFile, urls, keywords, company_names, index,
                    attempt, ret, text, results, all_sentences, files, trace >>

MatchNext == AnalyzeText

MatchSpec == MatchInit /\ [][MatchNext]_vars

-----------------------------------------------------------------------------
(* The pipeline: __main__, extract_keywords, read_company_names,           *)
(* process_filings, read_pdf_content, save_results, save_sentences_to_file *)

ERROR_LOG_FILE == "error_log_pdf.txt"
OUTPUT_EXCEL_FILE == "WebScraper_PDF.xlsx"
OUTPUT_CSV_FILE == "WebScraper_PDF.csv"
SENTENCES_OUTPUT_FILE == "KeywordSentences_PDF.txt"

NoText == [ none |-> TRUE, text |-> << >> ]
SomeText(t) == [ none |-> FALSE, text |-> t ]
\* "if text:" is false for None and for the empty string
Truthy(r) == ~r.none /\ r.text # << >>

(* The external calls of a run, in the order they are made *)
AttemptEv(i, n, u, outcome, t) ==
    [ op |-> "attempt", who |-> "read_pdf_content", idx |-> i, n |-> n,
      outcome |-> outcome, secs |-> 0, url |-> u, text |-> t ]
SleepEv(who, i, n, secs) ==
    [ op |-> "sleep", who |-> who, idx |-> i, n |-> n,
      outcome |-> "", secs |-> secs, url |-> "", text |-> << >> ]
LogEv(who, i, n, u) ==
    [ op |-> "log", who |-> who, idx |-> i, n |-> n,
      outcome |-> "", secs |-> 0, url |-> u, text |-> << >> ]
AppendEv(i, u) ==
    [ op |-> "append", who |-> "process_filings", idx |-> i, n |-> 0,
      outcome |-> "", secs |-> 0, url |-> u, text |-> << >> ]

\* [line.strip() for line in f if line.strip()] on lines of characters
RECURSIVE StripLines(_)
StripLines(lines) ==
    IF lines = << >> THEN << >>
    ELSE IF Strip(Head(lines)) # << >>
         THEN << Strip(Head(lines)) >> \o StripLines(Tail(lines))
         ELSE StripLines(Tail(lines))

\* the same on the lines of the URL and the names file, whose entries are kept whole
\* here: a blank line is ""
RECURSIVE NonBlank(_)
NonBlank(lines) ==
    IF lines = << >> THEN << >>
    ELSE IF Head(lines) # ""
         THEN << Head(lines) >> \o NonBlank(Tail(lines))
         ELSE NonBlank(Tail(lines))

UrlPdf == "https://h.org/docs/a%20b.pdf"
UrlDir == "https://h.org/docs/"
UrlPool == { UrlPdf, UrlDir }

\* os.path.basename of the URL's path, unquoted; "Unknown" when it is empty
extract_filename(u) ==
    IF u = UrlPdf THEN "a b.pdf" ELSE "Unknown"

\* display_name: the company name at the same index when there is one
DisplayName(names, i, u) ==
    IF names # << >> /\ i < Len(names) THEN names[i + 1] ELSE extract_filename(u)

KeyURL == << "U", "R", "L" >>
KeyName == << "N", "a", "m", "e" >>
KeySentinel == << "N","o"," ","K","e","y","w","o","r","d","s"," ","F","o","u","n","d" >>
SentinelText == "No keywords found in this file."

\* variant: the sentinel column is added to every row
MakeRowAlwaysSentinel(u, name, occ) ==
    [ k \in { KeyURL, KeyName, KeySentinel } \cup DOMAIN occ |->
        IF k \in DOMAIN occ THEN occ[k]
        ELSE IF k = KeyURL THEN u
        ELSE IF k = KeyName THEN name
        ELSE SentinelText ]

\* the row of a document: {"URL": url, "Name": display_name, **occurrences}, or the
\* sentinel row when occurrences is empty
MakeRow(u, name, occ) ==
    IF DOMAIN occ # {}
    THEN [ k \in { KeyURL, KeyName } \cup DOMAIN occ |->
             IF k \in DOMAIN occ THEN occ[k]
             ELSE IF k = KeyURL THEN u
             ELSE name ]
    ELSE [ k \in { KeyURL, KeyName, KeySentinel } |->
             IF k = KeyURL THEN u
             ELSE IF k = KeyName THEN name
             ELSE SentinelText ]

\* variant: the keyword check is left out of __main__
NoKeywordsNever(kws) == FALSE

\* "if not keywords:" in __main__
NoKeywords(kws) == kws = << >>

\* variant: only a failed download is retried
ShouldRetryFetchOnly(kind, att) ==
    kind = "fetch_failed" /\ att < MAX_RETRIES - 1

\* variant: if attempt < MAX_RETRIES
ShouldRetryOffByOne(kind, att) == att < MAX_RETRIES

\* "except Exception ... if attempt < MAX_RETRIES - 1": the same for a failed download
\* and a failed extraction, both raised inside the one try block
ShouldRetry(kind, att) == att < MAX_RETRIES - 1

\* variant: the error is logged on every failed attempt
FailureCallsLogEach(i, att, u, retry) ==
    << LogEv("read_pdf_content", i, att + 1, u) >>
    \o (IF retry THEN << SleepEv("read_pdf_content", i, att + 1, RETRY_DELAY) >> ELSE << >>)

\* the calls of the except block: time.sleep(RETRY_DELAY), or log_error(url, ...)
FailureCalls(i, att, u, retry) ==
    IF retry
    THEN << SleepEv("read_pdf_content", i, att + 1, RETRY_DELAY) >>
    ELSE << LogEv("read_pdf_content", i, att + 1, u) >>

\* variant: time.sleep(1) inside "if text:"
PauseCallsWhenRecorded(i, recorded) ==
    IF recorded THEN << SleepEv("process_filings", i, 0, DOC_PAUSE) >> ELSE << >>

\* time.sleep(1) at the end of the loop body
PauseCalls(i, recorded) == << SleepEv("process_filings", i, 0, DOC_PAUSE) >>

(* Inputs of the pipeline specification *)
Blank == << " " >>
KwA == << "a" >>
KwCat == << "c", "a", "t" >>
KwFileLines ==
    { << >>,
      << Blank, << >> >>,
      << << " ", "a", " " >>, << >>, KwA >>,
      << KwCat, KwA >> }
KwFiles ==
    { [ status |-> st, lines |-> << >> ] : st \in { "missing", "unreadable" } }
    \cup { [ status |-> "ok", lines |-> l ] : l \in KwFileLines }

NamesFiles ==
    { [ status |-> "missing", lines |-> << >> ],
      [ status |-> "unreadable", lines |-> << >> ],
      [ status |-> "ok", lines |-> << "Acme", "" >> ] }

\* every URL list of up to MaxUrls lines, and three lists of two lines: two different
\* URLs, the same URL twice, a blank line before a URL
UrlFileLines ==
    SeqsUpTo(UrlPool, MaxUrls)
    \cup { << UrlPdf, UrlDir >>, << UrlDir, UrlDir >>, << "", UrlDir >> }
UrlFiles ==
    { [ status |-> "missing", lines |-> << >> ] }
    \cup { [ status |-> "ok", lines |-> l ] : l \in UrlFileLines }

\* the texts a PDF may hold: none (a scanned document), sentences with "a" and
\* without "cat", a sentence with "cat"
PdfTexts == { << >>, Twice, CatSat }

Init ==
    /\ pc = "main"
    /\ kwFile \in KwFiles
    /\ namesFile \in NamesFiles
    /\ urlFile \in UrlFiles
    /\ urls = << >>
    /\ keywords = << >>
    /\ company_names = << >>
    /\ index = 0
    /\ attempt = 0
    /\ ret = NoText
    /\ text = << >>
    /\ results = << >>
    /\ all_sentences = {}
    /\ files = {}
    /\ trace = << >>
    /\ sentences = << >>
    /\ occurrences = EmptyDict
    /\ found = {}

\* __main__ lines 183-186 with extract_keywords: the keywords are read; an unreadable
\* file is logged and gives no keywords; without keywords the run exits
ReadKeywords ==
    /\ pc = "main"
    /\ LET readable == kwFile.status = "ok"
           kws == IF readable THEN StripLines(kwFile.lines) ELSE << >>
       IN  /\ keywords' = kws
           /\ trace' = IF readable THEN trace
                       ELSE Append(trace, LogEv("extract_keywords", -1, 0, "N/A"))
           /\ files' = IF readable THEN files ELSE files \cup { ERROR_LOG_FILE }
           /\ pc' = IF NoKeywords(kws) THEN "exited" ELSE "names"
    /\ UNCHANGED << kwFile, namesFile, urlFile, urls, company_names, index, attempt,
                    ret, text, results, all_sentences, sentences, occurrences, found >>

\* __main__ line 189 with read_company_names
ReadCompanyNames ==
    /\ pc = "names"
    /\ company_names' = IF namesFile.status = "ok" THEN NonBlank(namesFile.lines)
                        ELSE << >>
    /\ trace' = IF namesFile.status = "unreadable"
                THEN Append(trace, LogEv("read_company_names", -1, 0, "N/A"))
                ELSE trace
    /\ files' = IF namesFile.status = "unreadable" THEN files \cup { ERROR_LOG_FILE }
                ELSE files
    /\ pc' = "process"
    /\ UNCHANGED << kwFile, namesFile, urlFile, urls, keywords, index, attempt,
                    ret, text, results, all_sentences, sentences, occurrences, found >>

\* process_filings lines 107-118: the URL file is read; open() is not guarded, so
\* a missing file ends the run with the exception
ReadUrls ==
    /\ pc = "process"
    /\ IF urlFile.status = "ok"
       THEN /\ urls' = NonBlank(urlFile.lines)
            /\ pc' = "loop"
       ELSE /\ urls' = urls
            /\ pc' = "crashed"
    /\ index' = 0
    /\ results' = << >>
    /\ all_sentences' = {}
    /\ UNCHANGED << kwFile, namesFile, urlFile, keywords, company_names, attempt,
                    ret, text, files, trace, sentences, occurrences, found >>

\* process_filings lines 120-128: the next URL is taken and read_pdf_content is
\* entered, or the loop is over and the function returns
NextUrl ==
    /\ pc = "loop"
    /\ IF index < Len(urls)
       THEN /\ pc' = "fetch"
            /\ attempt' = 0
       ELSE /\ pc' = "save_results"
            /\ attempt' = attempt
    /\ UNCHANGED << kwFile, namesFile, urlFile, urls, keywords, company_names, index,
                    ret, text, results, all_sentences, files, trace,
                    sentences, occurrences, found >>

\* read_pdf_content lines 50-65, one iteration whose try block raises (kind says
\* where: urlopen/read, or fitz.open/get_text): sleep and go round again, or log
\* and return None; line 66 when the loop runs out
AttemptFails(kind) ==
    /\ pc = "fetch"
    /\ attempt < MAX_RETRIES
    /\ LET u == urls[index + 1]
           retry == ShouldRetry(kind, attempt)
           calls == FailureCalls(index, attempt, u, retry)
       IN  /\ trace' = trace \o << AttemptEv(index, attempt + 1, u, kind, << >>) >> \o calls
           /\ files' = IF \E k \in DOMAIN calls : calls[k].op = "log"
                       THEN files \cup { ERROR_LOG_FILE } ELSE files
           /\ IF retry /\ attempt + 1 < MAX_RETRIES
              THEN /\ attempt' = attempt + 1
                   /\ pc' = "fetch"
                   /\ ret' = ret
              ELSE /\ attempt' = attempt
                   /\ pc' = "record"
                   /\ ret' = NoText
    /\ UNCHANGED << kwFile, namesFile, urlFile, urls, keywords, company_names, index,
                    text, results, all_sentences, sentences, occurrences, found >>

AttemptFetchFails == AttemptFails("fetch_failed")

AttemptExtractFails == AttemptFails("extract_failed")

\* read_pdf_content lines 50-58, one iteration whose try block succeeds: the text of
\* the pages is returned
AttemptSucceeds ==
    /\ pc = "fetch"
    /\ attempt < MAX_RETRIES
    /\ \E t \in PdfTexts :
          /\ trace' = Append(trace, AttemptEv(index, attempt + 1, urls[index + 1], "ok", t))
          /\ ret' = SomeText(t)
    /\ pc' = "record"
    /\ UNCHANGED << kwFile, namesFile, urlFile, urls, keywords, company_names, index,
                    attempt, text, results, all_sentences, files,
                    sentences, occurrences, found >>

\* process_filings lines 129-148: a text that is not empty is analysed and its row
\* appended; then the pause, whatever happened
RecordDocument ==
    /\ pc = "record"
    /\ LET u == urls[index + 1]
           name == DisplayName(company_names, index, u)
           recorded == Truthy(ret)
           r == analyze_text_for_keywords(ret.text, keywords)
       IN  /\ IF recorded
              THEN /\ text' = ret.text
                   /\ sentences' = r.sentences
                   /\ occurrences' = r.occurrences
                   /\ found' = r.found
                   /\ results' = Append(results, MakeRow(u, name, r.occurrences))
                   /\ all_sentences' = all_sentences \cup r.found
              ELSE UNCHANGED << text, sentences, occurrences, found, results, all_sentences >>
           /\ trace' = trace
                       \o (IF recorded THEN << AppendEv(index, u) >> ELSE << >>)
                       \o PauseCalls(index, recorded)
    /\ index' = index + 1
    /\ pc' = "loop"
    /\ UNCHANGED << kwFile, namesFile, urlFile, urls, keywords, company_names, attempt,
                    ret, files >>

\* save_results: nothing without results; else the spreadsheet, then the CSV file;
\* a failure of either is logged
SaveResults ==
    /\ pc = "save_results"
    /\ \E outcome \in { "ok", "excel_fails", "csv_fails" } :
          IF results = << >>
          THEN /\ outcome = "ok"
               /\ UNCHANGED << files, trace >>
          ELSE /\ files' = files \cup
                     (CASE outcome = "ok" -> { OUTPUT_EXCEL_FILE, OUTPUT_CSV_FILE }
                        [] outcome = "excel_fails" -> { ERROR_LOG_FILE }
                        [] outcome = "csv_fails" -> { OUTPUT_EXCEL_FILE, ERROR_LOG_FILE })
               /\ trace' = IF outcome = "ok" THEN trace
                           ELSE Append(trace, LogEv("save_results", -1, 0, "N/A"))
    /\ pc' = "save_sentences"
    /\ UNCHANGED << kwFile, namesFile, urlFile, urls, keywords, company_names, index,
                    attempt, ret, text, results, all_sentences,
                    sentences, occurrences, found >>

\* save_sentences_to_file: nothing without sentences; else the file is written, or
\* the failure logged
SaveSentences ==
    /\ pc = "save_sentences"
    /\ \E ok \in BOOLEAN :
          IF all_sentences = {}
          THEN /\ ok
               /\ UNCHANGED << files, trace >>
          ELSE /\ files' = files \cup
                     (IF ok THEN { SENTENCES_OUTPUT_FILE } ELSE { ERROR_LOG_FILE })
               /\ trace' = IF ok THEN trace
                           ELSE Append(trace, LogEv("save_sentences_to_file", -1, 0, "N/A"))
    /\ pc' = "done"
    /\ UNCHANGED << kwFile, namesFile, urlFile, urls, keywords, company_names, index,
                    attempt, ret, text, results, all_sentences,
                    sentences, occurrences, found >>

Next ==
    \/ ReadKeywords
    \/ ReadCompanyNames
    \/ ReadUrls
    \/ NextUrl
    \/ AttemptFetchFails
    \/ AttemptExtractFails
    \/ AttemptSucceeds
    \/ RecordDocument
    \/ SaveResults
    \/ SaveSentences

Spec == Init /\ [][Next]_vars

-----------------------------------------------------------------------------
(* Properties of the segmenter (SegSpec) *)

\* a whitespace run that immediately follows '.', '!' or '?' starts at t[i]
RunStart(t, i) ==
    /\ i >= 2
    /\ i <= Len(t)
    /\ IsTerminal(t[i - 1])
    /\ IsSpace(t[i])

SpaceRunEnd(t, i) ==
    CHOOSE j \in i..Len(t) :
        /\ \A k \in i..j : IsSpace(t[k])
        /\ j = Len(t) \/ ~IsSpace(t[j + 1])

\* the pieces of t left when the whitespace runs starting at the positions of B are cut out
Pieces(t, B) ==
    LET n == Cardinality(B)
        nth(k) == CHOOSE b \in B : Cardinality({ x \in B : x < b }) = k - 1
        first(k) == IF k = 1 THEN 1 ELSE SpaceRunEnd(t, nth(k - 1)) + 1
        last(k) == IF k = n + 1 THEN Len(t) ELSE nth(k) - 1
    IN  [ k \in 1..(n + 1) |-> SubSeq(t, first(k), last(k)) ]

\* "a word character followed by period-letter-period", ending just before t[i]
DottedAbbrev(t, i) ==
    /\ i >= 5
    /\ IsWord(t[i - 4])
    /\ t[i - 3] = "."
    /\ t[i - 2] \in UpperAZ \cup LowerAZ
    /\ t[i - 1] = "."

\* "a capitalized single letter plus period", ending just before t[i]
InitialAbbrev(t, i) ==
    /\ i >= 3
    /\ t[i - 2] \in UpperAZ
    /\ t[i - 1] = "."
    /\ i = 3 \/ ~IsWord(t[i - 3])

\* word character, period, word character, terminal character, ending just before t[i]
DottedPattern(t, i) ==
    /\ i >= 5
    /\ IsWord(t[i - 4])
    /\ t[i - 3] = "."
    /\ IsWord(t[i - 2])
    /\ IsTerminal(t[i - 1])

\* uppercase letter, lowercase letter, period, ending just before t[i]
TitlePattern(t, i) ==
    /\ i >= 4
    /\ t[i - 3] \in UpperAZ
    /\ t[i - 2] \in LowerAZ
    /\ t[i - 1] = "."

MrSmithSentences ==
    << SubSeq(MrSmith, 1, 20), SubSeq(MrSmith, 22, 29) >>

\* C10 as claimed: the text is split at every whitespace run that follows '.', '!' or
\* '?', except after word-period-letter-period ("U.S.") and after a capitalized
\* single letter plus period ("A."); "Mr. Smith went home. He left." gives two sentences.
C10_AsClaimed ==
    pc = "segmented" =>
        /\ sentences = Pieces(text, { i \in 1..Len(text) :
                                        /\ RunStart(text, i)
                                        /\ ~DottedAbbrev(text, i)
                                        /\ ~InitialAbbrev(text, i) })
        /\ text = MrSmith => sentences = MrSmithSentences

\* C10 amended: the text is split at every whitespace run that follows '.', '!' or
\* '?', except when the four characters ending with the terminal are word character,
\* period, word character, terminal ("U.S."), or the three characters ending with it
\* are an uppercase letter, a lowercase letter and a period ("Mr."); a single capital
\* letter plus period does not suppress the split. "Mr. Smith went home. He left."
\* gives exactly two sentences.
C10_Segmentation ==
    pc = "segmented" =>
        /\ sentences = Pieces(text, { i \in 1..Len(text) :
                                        /\ RunStart(text, i)
                                        /\ ~DottedPattern(text, i)
                                        /\ ~TitlePattern(text, i) })
        /\ text = MrSmith => sentences = MrSmithSentences
        /\ text = ASmith => Len(sentences) = 3

\* the example text has been segmented: one split suppressed ("Mr."), one made
C10_Witness ==
    /\ pc = "segmented"
    /\ text = MrSmith
    /\ Len(sentences) = 2

-----------------------------------------------------------------------------
(* Properties of the matcher (MatchSpec) *)

Range(f) == { f[x] : x \in DOMAIN f }

\* the number of elements of the sentence sequence that match kw
NumMatching(sents, kw) ==
    Cardinality({ i \in 1..Len(sents) : KeywordSearch(kw, sents[i]) })

\* the number of times kw is in the keyword list
Multiplicity(kws, kw) ==
    Cardinality({ i \in 1..Len(kws) : kws[i] = kw })

\* C5 as claimed: a keyword that is k times in the keyword list is reported with k
\* times the number of sentences that match it.
C5_AsClaimed ==
    pc = "analyzed" =>
        \A kw \in Range(keywords) :
            NumMatching(sentences, kw) > 0 =>
                /\ kw \in DOMAIN occurrences
                /\ occurrences[kw] = Multiplicity(keywords, kw) * NumMatching(sentences, kw)

\* C5 amended: a keyword that is two or more times in the keyword list is reported
\* with the number of sentences that match it, not a multiple of it.
C5_DuplicatesOverwrite ==
    pc = "analyzed" =>
        \A kw \in Range(keywords) :
            (Multiplicity(keywords, kw) >= 2 /\ NumMatching(sentences, kw) > 0) =>
                /\ kw \in DOMAIN occurrences
                /\ occurrences[kw] = NumMatching(sentences, kw)

\* a keyword listed twice matched two sentences or more
C5_Witness ==
    /\ pc = "analyzed"
    /\ \E kw \in Range(keywords) :
          /\ Multiplicity(keywords, kw) >= 2
          /\ NumMatching(sentences, kw) >= 2

\* C6: for every keyword the count is the number of elements of the raw segmented
\* sentence sequence that match it, and the keyword is a key of the mapping exactly
\* when that number is greater than 0.
C6_CountPerSentence ==
    pc = "analyzed" =>
        /\ DOMAIN occurrences \subseteq Range(keywords)
        /\ \A kw \in Range(keywords) :
              /\ kw \in DOMAIN occurrences <=> NumMatching(sentences, kw) > 0
              /\ kw \in DOMAIN occurrences => occurrences[kw] = NumMatching(sentences, kw)

\* "a. a. A a!": two identical sentences each count, the sentence with the keyword
\* twice counts once
C6_Witness ==
    /\ pc = "analyzed"
    /\ text = Twice
    /\ << "a" >> \in DOMAIN occurrences
    /\ occurrences[<< "a" >>] = 3
    /\ Cardinality(Range(sentences)) < Len(sentences)

-----------------------------------------------------------------------------
(* Properties of the pipeline (Spec) *)

UrlIndexes == 0..(Len(urls) - 1)

AttemptsOf(i) == { p \in DOMAIN trace : trace[p].op = "attempt" /\ trace[p].idx = i }
LogsOf(i) == { p \in DOMAIN trace : trace[p].op = "log" /\ trace[p].idx = i }
AppendsOf(i) == { p \in DOMAIN trace : trace[p].op = "append" /\ trace[p].idx = i }
PausesOf(i) ==
    { p \in DOMAIN trace :
        trace[p].op = "sleep" /\ trace[p].who = "process_filings" /\ trace[p].idx = i }

IsAttempt(p) == trace[p].op = "attempt"
IsFailedAttempt(p) == trace[p].op = "attempt" /\ trace[p].outcome # "ok"

\* process_filings has returned
Returned == pc \in { "save_results", "save_sentences", "done" }

\* every attempt for URL i failed
HardFailed(i) ==
    /\ AttemptsOf(i) # {}
    /\ \A p \in AttemptsOf(i) : trace[p].outcome # "ok"

\* URL i was fetched and extracted, and the text is empty
EmptyText(i) ==
    \E p \in AttemptsOf(i) : trace[p].outcome = "ok" /\ trace[p].text = << >>

\* the text extracted for URL i
TextOf(i) == trace[CHOOSE p \in AttemptsOf(i) : trace[p].outcome = "ok"].text

AppendPositions == { p \in DOMAIN trace : trace[p].op = "append" }
\* the index of the URL whose row is results[k]
RowIdx(k) ==
    trace[CHOOSE p \in AppendPositions :
            Cardinality({ q \in AppendPositions : q < p }) = k - 1].idx

\* C1 as claimed: when process_filings has returned, every URL of the list has a row
\* or an error-log entry, never neither and never both, and there are as many rows
\* as URLs that did not hard-fail, whatever read_pdf_content returned.
C1_AsClaimed ==
    Returned =>
        /\ \A i \in UrlIndexes :
              /\ (AppendsOf(i) # {}) # (LogsOf(i) # {})
              /\ Cardinality(AppendsOf(i)) <= 1
        /\ Len(results) = Cardinality({ i \in UrlIndexes : ~HardFailed(i) })

\* C2: a URL whose every attempt failed got exactly MAX_RETRIES attempts, exactly
\* one error-log entry, written after the last attempt, and no row; the run goes on:
\* every later URL is attempted.
C2_FailedUrl ==
    \A i \in UrlIndexes :
        (i < index /\ HardFailed(i)) =>
            /\ Cardinality(AttemptsOf(i)) = MAX_RETRIES
            /\ Cardinality(LogsOf(i)) = 1
            /\ \A l \in LogsOf(i) :
                  /\ trace[l].url = urls[i + 1]
                  /\ \A p \in AttemptsOf(i) : p < l
            /\ AppendsOf(i) = {}
            /\ \A k \in DOMAIN results : RowIdx(k) # i
            /\ pc \notin { "crashed", "exited" }
            /\ Returned => \A j \in UrlIndexes : AttemptsOf(j) # {}

\* a URL failed on every attempt and the next URL of the list got its row
C2_Witness ==
    /\ Returned
    /\ \E i \in UrlIndexes :
          /\ HardFailed(i)
          /\ i + 1 \in UrlIndexes
          /\ AppendsOf(i + 1) # {}

\* C3 as claimed: after an attempt whose extraction failed, the failure is logged and
\* there is no further attempt for that URL.
C3_AsClaimed ==
    \A p \in DOMAIN trace :
        (IsAttempt(p) /\ trace[p].outcome = "extract_failed") =>
            /\ p + 1 \in DOMAIN trace
            /\ trace[p + 1].op = "log"
            /\ \A q \in DOMAIN trace :
                  (q > p /\ IsAttempt(q)) => trace[q].idx # trace[p].idx

\* C3 amended: an extraction failure is handled like a fetch failure. On an attempt
\* that is not the last it is followed by the RETRY_DELAY wait and a new attempt
\* (download and extraction) for the same URL; on the last attempt it is logged and
\* there is no further attempt for that URL.
C3_ExtractionRetried ==
    \A p \in DOMAIN trace :
        (IsAttempt(p) /\ trace[p].outcome = "extract_failed") =>
            /\ p + 1 \in DOMAIN trace
            /\ IF trace[p].n < MAX_RETRIES
               THEN /\ trace[p + 1] =
                          SleepEv("read_pdf_content", trace[p].idx, trace[p].n, RETRY_DELAY)
                    /\ IF p + 2 \in DOMAIN trace
                       THEN /\ IsAttempt(p + 2)
                            /\ trace[p + 2].idx = trace[p].idx
                            /\ trace[p + 2].n = trace[p].n + 1
                       ELSE /\ pc = "fetch"
                            /\ index = trace[p].idx
                            /\ attempt = trace[p].n
               ELSE /\ trace[p + 1].op = "log"
                    /\ trace[p + 1].url = trace[p].url
                    /\ \A q \in DOMAIN trace :
                          (q > p /\ IsAttempt(q)) => trace[q].idx # trace[p].idx

\* the extraction failed on the first attempt and the second attempt succeeded
C3_Witness ==
    \E p \in DOMAIN trace :
        /\ IsAttempt(p)
        /\ trace[p].outcome = "extract_failed"
        /\ trace[p].n = 1
        /\ p + 2 \in DOMAIN trace
        /\ IsAttempt(p + 2)
        /\ trace[p + 2].outcome = "ok"

\* C4: at most MAX_RETRIES attempts for one URL, numbered from 1; no attempt after a
\* successful one; a failed attempt that is not the last is followed by the
\* RETRY_DELAY wait; the last failed attempt is followed by the log entry, not by a
\* wait; read_pdf_content waits nowhere else.
C4_BoundedRetry ==
    /\ \A i \in UrlIndexes : Cardinality(AttemptsOf(i)) <= MAX_RETRIES
    /\ \A p \in DOMAIN trace :
          /\ IsAttempt(p) =>
                trace[p].n = 1 + Cardinality({ q \in AttemptsOf(trace[p].idx) : q < p })
          /\ (IsAttempt(p) /\ trace[p].outcome = "ok") =>
                \A q \in DOMAIN trace :
                    (q > p /\ IsAttempt(q)) => trace[q].idx # trace[p].idx
          /\ IsFailedAttempt(p) =>
                /\ p + 1 \in DOMAIN trace
                /\ IF trace[p].n < MAX_RETRIES
                   THEN trace[p + 1] =
                          SleepEv("read_pdf_content", trace[p].idx, trace[p].n, RETRY_DELAY)
                   ELSE trace[p + 1].op = "log"
          /\ (trace[p].op = "sleep" /\ trace[p].who = "read_pdf_content") =>
                /\ p > 1
                /\ IsFailedAttempt(p - 1)
                /\ trace[p - 1].n < MAX_RETRIES
                /\ trace[p].secs = RETRY_DELAY

\* a URL failed MAX_RETRIES times: wait after the first failure, log after the last
C4_Witness ==
    \E p \in DOMAIN trace :
        /\ IsFailedAttempt(p)
        /\ trace[p].n = MAX_RETRIES
        /\ p > 1
        /\ trace[p - 1].op = "sleep"
        /\ p + 1 \in DOMAIN trace
        /\ trace[p + 1].op = "log"

\* C7: a document that gave text with no keyword match has a row, and the row holds
\* URL, Name and the sentinel only; the row of a document with a match holds URL,
\* Name and the counts of the matching keywords, and no sentinel.
C7_SentinelRow ==
    /\ Len(results) = Cardinality(AppendPositions)
    /\ \A i \in UrlIndexes :
          (i < index /\ ~HardFailed(i) /\ ~EmptyText(i)) => AppendsOf(i) # {}
    /\ \A k \in DOMAIN results :
          LET row == results[k]
              sents == Segment(TextOf(RowIdx(k)))
              hits == { kw \in Range(keywords) : NumMatching(sents, kw) > 0 }
          IN  IF hits = {}
              THEN /\ DOMAIN row = { KeyURL, KeyName, KeySentinel }
                   /\ row[KeySentinel] = SentinelText
              ELSE /\ DOMAIN row = { KeyURL, KeyName } \cup hits
                   /\ KeySentinel \notin DOMAIN row
                   /\ \A kw \in hits : row[kw] = NumMatching(sents, kw)

\* the run produced a sentinel row and a row with counts
C7_Witness ==
    /\ Returned
    /\ \E k1, k2 \in DOMAIN results :
          /\ KeySentinel \in DOMAIN results[k1]
          /\ KeySentinel \notin DOMAIN results[k2]

OutputFiles ==
    { OUTPUT_EXCEL_FILE, OUTPUT_CSV_FILE, SENTENCES_OUTPUT_FILE, ERROR_LOG_FILE }

\* C8 as claimed: with no keywords loaded the run ends before any fetch attempt and
\* writes none of the output files (table, sentence file, error log).
C8_AsClaimed ==
    (pc # "main" /\ keywords = << >>) =>
        /\ pc = "exited"
        /\ \A p \in DOMAIN trace : ~IsAttempt(p)
        /\ files \cap OutputFiles = {}

\* C8 amended: with no keywords loaded the run ends before any fetch attempt and
\* writes neither the table nor the sentence file; the error log gets one "N/A"
\* entry when the keyword file could not be read, and nothing is written when the
\* file was read and held only blank lines.
C8_ExitWithoutKeywords ==
    (pc # "main" /\ keywords = << >>) =>
        /\ pc = "exited"
        /\ ~ENABLED Next
        /\ \A p \in DOMAIN trace : ~IsAttempt(p)
        /\ files \subseteq { ERROR_LOG_FILE }
        /\ ERROR_LOG_FILE \in files <=> kwFile.status # "ok"
        /\ Len(trace) = IF kwFile.status = "ok" THEN 0 ELSE 1
        /\ \A p \in DOMAIN trace : trace[p].op = "log" /\ trace[p].url = "N/A"

\* the keyword file is missing: the run has exited and the error log was written
C8_Witness ==
    /\ pc = "exited"
    /\ kwFile.status = "missing"
    /\ ERROR_LOG_FILE \in files

\* C9: the attempts follow the order of the URL list; before the first attempt for a
\* URL, the URL before it has its outcome (row, log entry, or empty text) and its
\* pause; every finished URL has exactly one pause, after all its other calls; the
\* rows are in the order of their URLs.
C9_Sequential ==
    /\ \A p, q \in DOMAIN trace :
          (p < q /\ IsAttempt(p) /\ IsAttempt(q)) => trace[p].idx <= trace[q].idx
    /\ \A q \in DOMAIN trace :
          (IsAttempt(q) /\ trace[q].idx > 0) =>
             LET j == trace[q].idx - 1
             IN  /\ \E s \in PausesOf(j) : s < q
                 /\ AppendsOf(j) # {} \/ LogsOf(j) # {} \/ EmptyText(j)
    /\ \A i \in UrlIndexes :
          /\ Cardinality(PausesOf(i)) = IF i < index THEN 1 ELSE 0
          /\ \A s \in PausesOf(i) :
                /\ trace[s].secs = DOC_PAUSE
                /\ \A p \in AttemptsOf(i) \cup LogsOf(i) \cup AppendsOf(i) : p < s
    /\ Len(results) = Cardinality(AppendPositions)
    /\ \A k \in DOMAIN results : results[k][KeyURL] = urls[RowIdx(k) + 1]
    /\ \A k1, k2 \in DOMAIN results : k1 < k2 => RowIdx(k1) < RowIdx(k2)

\* two URLs, the first with nothing recorded (failure or empty text), the second with
\* a row: both pauses taken
C9_Witness ==
    /\ Returned
    /\ Len(urls) = 2
    /\ AppendsOf(0) = {}
    /\ AppendsOf(1) # {}
    /\ PausesOf(0) # {}
    /\ PausesOf(1) # {}

=============================================================================
